---- MODULE Spec2Model ----
(***************************************************************************)
(* Blood bank record keeping service (src/main.go).                        *)
(*                                                                         *)
(* The persisted state is the six tables of the schema.  A table is a      *)
(* sequence of rows and a row's id is its position (INTEGER PRIMARY KEY    *)
(* AUTOINCREMENT, rows are never physically removed).  The columns that no *)
(* handler ever reads back to take a decision (phone, city, hospital,      *)
(* created_at, donation_date, request_date) are left out of the rows.      *)
(*                                                                         *)
(* A text value is a sequence of tokens: a token is either a run of white  *)
(* space, written " ", or a run of other characters.  The empty text is    *)
(* the empty sequence.                                                     *)
(***************************************************************************)
EXTENDS Integers, Sequences, FiniteSets, TLC

VARIABLES blood_types, donors, recipients, donations, inventory, requests,
          last, credited, debited, procs, creditedType, returned, calls, mig

db == <<blood_types, donors, recipients, donations, inventory, requests>>
vars == <<blood_types, donors, recipients, donations, inventory, requests,
          last, credited, debited, procs, creditedType, returned, calls, mig>>

\* History kept for the claims, not program state: creditedType[d] is the
\* blood type the recording of donation d credited, returned the set of
\* <<label, ref>> pairs getOrCreateBloodTypeID has returned.  calls[p] is
\* the position of process p inside a call of getOrCreateBloodTypeID.
histVars == <<creditedType, returned, calls>>

\* What the handlers of the running server leave alone: the history, and
\* mig, the state of the start-up (initDB and migrateTo3NF).
sideVars == <<histVars, mig>>

(***************************************************************************)
(* Bounds of the model.                                                    *)
(***************************************************************************)
MaxDonors == 1
MaxRecipients == 1
MaxDonations == 1
MaxRequests == 1
MaxUnits == 2
MaxCredit == 5
MaxRefs == 2
NumProcs == 2
NumCallers == 3

(***************************************************************************)
(* Values.                                                                 *)
(***************************************************************************)
NULL == "NULL"
Today == "today"           \* time.Now().Format("2006-01-02")
WS == " "
Empty == <<>>

Pending == <<"Pending">>
Fulfilled == <<"Fulfilled">>
Cancelled == <<"Cancelled">>

\* Form values the callers submit.
BloodTypeInputs == { <<"o+">>, <<WS, "O+", WS>>, <<"A-">>, <<WS>> }
NameInputs == { <<"ann">>, <<WS>> }
ExpiryInputs == { <<"2025-12-01">>, <<WS>> }
StatusInputs == { Pending, <<WS, "Fulfilled">>, Cancelled, <<"Bogus">>, <<WS>> }
UnitInputs == 0..MaxUnits
IdInputs(table) == 0..(Len(table) + 1)

(***************************************************************************)
(* strings.TrimSpace and strings.ToUpper.                                  *)
(***************************************************************************)
RECURSIVE TrimLeft(_)
TrimLeft(s) == IF s # <<>> /\ Head(s) = WS THEN TrimLeft(Tail(s)) ELSE s

RECURSIVE TrimRight(_)
TrimRight(s) ==
  IF s # <<>> /\ s[Len(s)] = WS THEN TrimRight(SubSeq(s, 1, Len(s) - 1)) ELSE s

TrimSpace(s) == TrimRight(TrimLeft(s))

UpperToken(t) ==
  CASE t = "o+" -> "O+"
    [] t = "a-" -> "A-"
    [] t = "unknown" -> "UNKNOWN"
    [] OTHER -> t

ToUpper(s) == [i \in DOMAIN s |-> UpperToken(s[i])]

\* Faulty variant: the value is trimmed but its case is kept.
normalizeBloodType_TrimOnly(value) == TrimSpace(value)

normalizeBloodType(value) == ToUpper(TrimSpace(value))

(***************************************************************************)
(* Row lookups (the SELECT statements).                                    *)
(***************************************************************************)
\* SELECT id FROM blood_types WHERE type = ?   (0: sql.ErrNoRows)
BloodTypeIdOf(bts, label) ==
  IF \E i \in DOMAIN bts : bts[i] = label
    THEN CHOOSE i \in DOMAIN bts : bts[i] = label
    ELSE 0

\* SELECT ... FROM inventory WHERE blood_type_id = ?   (0: no row)
InventoryRowOf(inv, bloodTypeID) ==
  IF \E i \in DOMAIN inv : inv[i].blood_type_id = bloodTypeID
    THEN CHOOSE i \in DOMAIN inv : inv[i].blood_type_id = bloodTypeID
    ELSE 0

\* Faulty variant: a new label takes over the first row of the registry.
getOrCreateBloodTypeID_Reuse(bts, bloodType) ==
  LET bt == normalizeBloodType(bloodType)
      found == BloodTypeIdOf(bts, bt)
  IN IF bt = Empty THEN [err |-> TRUE, id |-> 0, blood_types |-> bts]
     ELSE IF found # 0 THEN [err |-> FALSE, id |-> found, blood_types |-> bts]
     ELSE IF bts = <<>> THEN [err |-> FALSE, id |-> 1, blood_types |-> <<bt>>]
     ELSE [err |-> FALSE, id |-> 1, blood_types |-> [bts EXCEPT ![1] = bt]]

\* Faulty variant: the id is returned but the row is not inserted.
getOrCreateBloodTypeID_NoInsert(bts, bloodType) ==
  LET bt == normalizeBloodType(bloodType)
      found == BloodTypeIdOf(bts, bt)
  IN IF bt = Empty THEN [err |-> TRUE, id |-> 0, blood_types |-> bts]
     ELSE IF found # 0 THEN [err |-> FALSE, id |-> found, blood_types |-> bts]
     ELSE [err |-> FALSE, id |-> Len(bts) + 1, blood_types |-> bts]

getOrCreateBloodTypeID(bts, bloodType) ==
  LET bt == normalizeBloodType(bloodType)
      found == BloodTypeIdOf(bts, bt)
  IN IF bt = Empty THEN [err |-> TRUE, id |-> 0, blood_types |-> bts]
     ELSE IF found # 0 THEN [err |-> FALSE, id |-> found, blood_types |-> bts]
     ELSE [err |-> FALSE, id |-> Len(bts) + 1, blood_types |-> Append(bts, bt)]

\* 0 stands for the error return (no row, or the row is soft-deleted).
getDonorBloodTypeID(donorID) ==
  IF donorID \in DOMAIN donors /\ donors[donorID].deleted_at = NULL
    THEN donors[donorID].blood_type_id
    ELSE 0

getRecipientBloodTypeID(recipientID) ==
  IF recipientID \in DOMAIN recipients /\ recipients[recipientID].deleted_at = NULL
    THEN recipients[recipientID].blood_type_id
    ELSE 0

getRequestBloodTypeID(requestID) ==
  IF /\ requestID \in DOMAIN requests
     /\ requests[requestID].deleted_at = NULL
     /\ requests[requestID].recipient_id \in DOMAIN recipients
    THEN recipients[requests[requestID].recipient_id].blood_type_id
    ELSE 0

\* SUM(units) over the rows ids of a table.
RECURSIVE SumUnits(_, _)
SumUnits(table, ids) ==
  IF ids = {} THEN 0
  ELSE LET i == CHOOSE x \in ids : TRUE
       IN table[i].units + SumUnits(table, ids \ {i})

(***************************************************************************)
(* Inventory ledger.                                                       *)
(***************************************************************************)
\* Faulty variants of the ledger statements, used to show that the claims
\* below depend on them: an UPDATE that sets the units instead of adding
\* to them, a sufficiency test that also refuses an exact match, and a
\* debit without the sufficiency test.
upsertInventoryByTypeID_Overwrite(inv, bloodTypeID, units) ==
  LET i == InventoryRowOf(inv, bloodTypeID)
  IN IF i # 0
       THEN [inv EXCEPT ![i].units = units, ![i].deleted_at = NULL]
       ELSE Append(inv, [blood_type_id |-> bloodTypeID, units |-> units,
                         deleted_at |-> NULL])

ConsumeCheck_RefusesExact(inv, bloodTypeID, units) ==
  LET i == InventoryRowOf(inv, bloodTypeID)
  IN /\ i # 0
     /\ inv[i].deleted_at = NULL
     /\ ~(inv[i].units <= units)

ConsumeCheck_RowOnly(inv, bloodTypeID, units) ==
  LET i == InventoryRowOf(inv, bloodTypeID)
  IN /\ i # 0
     /\ inv[i].deleted_at = NULL

upsertInventoryByTypeID(inv, bloodTypeID, units) ==
  LET i == InventoryRowOf(inv, bloodTypeID)
  IN IF i # 0
       THEN [inv EXCEPT ![i].units = @ + units, ![i].deleted_at = NULL]
       ELSE Append(inv, [blood_type_id |-> bloodTypeID, units |-> units,
                         deleted_at |-> NULL])

\* The SELECT of consumeInventoryByTypeID and the sufficiency test on its result.
ConsumeCheck(inv, bloodTypeID, units) ==
  LET i == InventoryRowOf(inv, bloodTypeID)
  IN /\ i # 0
     /\ inv[i].deleted_at = NULL
     /\ ~(inv[i].units < units)

\* Faulty variant: the UPDATE subtracts one unit whatever was asked.
ConsumeUpdate_OneUnit(inv, bloodTypeID, units) ==
  LET i == InventoryRowOf(inv, bloodTypeID)
  IN IF i # 0 THEN [inv EXCEPT ![i].units = @ - 1] ELSE inv

\* The UPDATE of consumeInventoryByTypeID.
ConsumeUpdate(inv, bloodTypeID, units) ==
  LET i == InventoryRowOf(inv, bloodTypeID)
  IN IF i # 0 THEN [inv EXCEPT ![i].units = @ - units] ELSE inv

\* Faulty variant: the UPDATE is issued before the balance is tested.
consumeInventoryByTypeID_UpdateFirst(inv, bloodTypeID, units) ==
  [ok |-> ConsumeCheck(inv, bloodTypeID, units),
   inventory |-> IF InventoryRowOf(inv, bloodTypeID) = 0
                   THEN inv
                   ELSE ConsumeUpdate(inv, bloodTypeID, units)]

consumeInventoryByTypeID(inv, bloodTypeID, units) ==
  IF ConsumeCheck(inv, bloodTypeID, units)
    THEN [ok |-> TRUE, inventory |-> ConsumeUpdate(inv, bloodTypeID, units)]
    ELSE [ok |-> FALSE, inventory |-> inv]

(***************************************************************************)
(* The answer of a handler: the route and the flash message rendered       *)
(* ("redirect" for http.Redirect).                                         *)
(***************************************************************************)
Answer(op, msg) == [op |-> op, msg |-> msg]
Redirect == "redirect"

NoDbChange == UNCHANGED db
Ghosts == UNCHANGED <<credited, debited, procs, sideVars>>

(***************************************************************************)
(* The request handlers of main, one action per handler, on a store that   *)
(* executes every statement successfully.                                  *)
(***************************************************************************)
PostDonors(nameIn, bloodTypeIn) ==
  LET name == TrimSpace(nameIn)
      bloodType == normalizeBloodType(bloodTypeIn)
      r == getOrCreateBloodTypeID(blood_types, bloodType)
  IN IF name = Empty \/ bloodType = Empty
       THEN /\ last' = Answer("/donors", "Donor name and blood type are required.")
            /\ NoDbChange
       ELSE IF r.err
         THEN /\ last' = Answer("/donors", "Could not add donor.")
              /\ NoDbChange
         ELSE /\ Len(donors) < MaxDonors
              /\ blood_types' = r.blood_types
              /\ donors' = Append(donors, [name |-> name, blood_type_id |-> r.id,
                                           deleted_at |-> NULL])
              /\ last' = Answer("/donors", Redirect)
              /\ UNCHANGED <<recipients, donations, inventory, requests>>

PostRecipients(nameIn, bloodTypeIn) ==
  LET name == TrimSpace(nameIn)
      bloodType == normalizeBloodType(bloodTypeIn)
      r == getOrCreateBloodTypeID(blood_types, bloodType)
  IN IF name = Empty \/ bloodType = Empty
       THEN /\ last' = Answer("/recipients", "Recipient name and blood type are required.")
            /\ NoDbChange
       ELSE IF r.err
         THEN /\ last' = Answer("/recipients", "Could not add recipient.")
              /\ NoDbChange
         ELSE /\ Len(recipients) < MaxRecipients
              /\ blood_types' = r.blood_types
              /\ recipients' = Append(recipients, [name |-> name, blood_type_id |-> r.id,
                                                   deleted_at |-> NULL])
              /\ last' = Answer("/recipients", Redirect)
              /\ UNCHANGED <<donors, donations, inventory, requests>>

PostDonations(donorID, units, expiryIn) ==
  LET expiry == TrimSpace(expiryIn)
      bloodTypeID == getDonorBloodTypeID(donorID)
  IN IF donorID = 0 \/ units <= 0 \/ expiry = Empty
       THEN /\ last' = Answer("/donations", "Donation requires donor, units, and expiry date.")
            /\ NoDbChange
       ELSE IF bloodTypeID = 0
         THEN /\ last' = Answer("/donations", "Donation requires a valid donor with blood type.")
              /\ NoDbChange
         ELSE /\ donations' = Append(donations, [donor_id |-> donorID, units |-> units,
                                                 expiry_date |-> expiry, deleted_at |-> NULL])
              /\ inventory' = upsertInventoryByTypeID(inventory, bloodTypeID, units)
              /\ last' = Answer("/donations", Redirect)
              /\ UNCHANGED <<blood_types, donors, recipients, requests>>

\* Faulty variant: the row is looked up without the deleted_at filter.
PostDonationsDelete_AnyRow(id) ==
  IF id = 0
    THEN /\ last' = Answer("/donations/delete", Redirect)
         /\ NoDbChange
    ELSE IF ~(id \in DOMAIN donations)
      THEN /\ last' = Answer("/donations/delete", "Donation not found.")
           /\ NoDbChange
      ELSE LET units == donations[id].units
               bloodTypeID == donors[donations[id].donor_id].blood_type_id
               c == consumeInventoryByTypeID(inventory, bloodTypeID, units)
           IN IF ~c.ok
                THEN /\ last' = Answer("/donations/delete", "Cannot delete donation because inventory is already used.")
                     /\ inventory' = c.inventory
                     /\ UNCHANGED <<blood_types, donors, recipients, donations, requests>>
                ELSE /\ inventory' = c.inventory
                     /\ donations' = [donations EXCEPT ![id].deleted_at = Today]
                     /\ last' = Answer("/donations/delete", Redirect)
                     /\ UNCHANGED <<blood_types, donors, recipients, requests>>

PostDonationsDelete(id) ==
  IF id = 0
    THEN /\ last' = Answer("/donations/delete", Redirect)
         /\ NoDbChange
    ELSE IF ~(id \in DOMAIN donations /\ donations[id].deleted_at = NULL)
      THEN /\ last' = Answer("/donations/delete", "Donation not found.")
           /\ NoDbChange
      ELSE LET units == donations[id].units
               bloodTypeID == donors[donations[id].donor_id].blood_type_id
               c == consumeInventoryByTypeID(inventory, bloodTypeID, units)
           IN IF ~c.ok
                THEN /\ last' = Answer("/donations/delete", "Cannot delete donation because inventory is already used.")
                     /\ inventory' = c.inventory
                     /\ UNCHANGED <<blood_types, donors, recipients, donations, requests>>
                ELSE /\ inventory' = c.inventory
                     /\ donations' = [donations EXCEPT ![id].deleted_at = Today]
                     /\ last' = Answer("/donations/delete", Redirect)
                     /\ UNCHANGED <<blood_types, donors, recipients, requests>>

\* Faulty variant: the units are not tested.
PostRequests_NoUnitsTest(recipientID, units) ==
  IF recipientID = 0
    THEN /\ last' = Answer("/requests", "Request requires recipient and units.")
         /\ NoDbChange
    ELSE IF getRecipientBloodTypeID(recipientID) = 0
      THEN /\ last' = Answer("/requests", "Request requires a valid recipient with blood type.")
           /\ NoDbChange
      ELSE /\ requests' = Append(requests, [recipient_id |-> recipientID, units |-> units,
                                            status |-> Pending, deleted_at |-> NULL])
           /\ last' = Answer("/requests", Redirect)
           /\ UNCHANGED <<blood_types, donors, recipients, donations, inventory>>

PostRequests(recipientID, units) ==
  IF recipientID = 0 \/ units <= 0
    THEN /\ last' = Answer("/requests", "Request requires recipient and units.")
         /\ NoDbChange
    ELSE IF getRecipientBloodTypeID(recipientID) = 0
      THEN /\ last' = Answer("/requests", "Request requires a valid recipient with blood type.")
           /\ NoDbChange
      ELSE /\ requests' = Append(requests, [recipient_id |-> recipientID, units |-> units,
                                            status |-> Pending, deleted_at |-> NULL])
           /\ last' = Answer("/requests", Redirect)
           /\ UNCHANGED <<blood_types, donors, recipients, donations, inventory>>

PostDonorsUpdate(id, nameIn, bloodTypeIn) ==
  LET name == TrimSpace(nameIn)
      bloodType == normalizeBloodType(bloodTypeIn)
      r == getOrCreateBloodTypeID(blood_types, bloodType)
  IN IF id = 0 \/ name = Empty \/ bloodType = Empty
       THEN /\ last' = Answer("/donors/update", "Donor update requires id, name, and blood type.")
            /\ NoDbChange
       ELSE IF r.err
         THEN /\ last' = Answer("/donors/update", "Could not update donor.")
              /\ NoDbChange
         ELSE /\ blood_types' = r.blood_types
              /\ donors' = IF id \in DOMAIN donors
                             THEN [donors EXCEPT ![id].name = name,
                                                 ![id].blood_type_id = r.id]
                             ELSE donors
              /\ last' = Answer("/donors/update", Redirect)
              /\ UNCHANGED <<recipients, donations, inventory, requests>>

\* Faulty variant: the row is removed instead of stamped.
PostDonorsDelete_Hard(id) ==
  /\ donors' = IF id # 0 /\ id \in DOMAIN donors
                 THEN SubSeq(donors, 1, id - 1) \o SubSeq(donors, id + 1, Len(donors))
                 ELSE donors
  /\ last' = Answer("/donors/delete", Redirect)
  /\ UNCHANGED <<blood_types, recipients, donations, inventory, requests>>

PostDonorsDelete(id) ==
  /\ donors' = IF id # 0 /\ id \in DOMAIN donors
                 THEN [donors EXCEPT ![id].deleted_at = Today]
                 ELSE donors
  /\ last' = Answer("/donors/delete", Redirect)
  /\ UNCHANGED <<blood_types, recipients, donations, inventory, requests>>

PostRecipientsUpdate(id, nameIn, bloodTypeIn) ==
  LET name == TrimSpace(nameIn)
      bloodType == normalizeBloodType(bloodTypeIn)
      r == getOrCreateBloodTypeID(blood_types, bloodType)
  IN IF id = 0 \/ name = Empty \/ bloodType = Empty
       THEN /\ last' = Answer("/recipients/update", "Recipient update requires id, name, and blood type.")
            /\ NoDbChange
       ELSE IF r.err
         THEN /\ last' = Answer("/recipients/update", "Could not update recipient.")
              /\ NoDbChange
         ELSE /\ blood_types' = r.blood_types
              /\ recipients' = IF id \in DOMAIN recipients
                                 THEN [recipients EXCEPT ![id].name = name,
                                                         ![id].blood_type_id = r.id]
                                 ELSE recipients
              /\ last' = Answer("/recipients/update", Redirect)
              /\ UNCHANGED <<donors, donations, inventory, requests>>

\* Faulty variant: the recipient's requests are soft-deleted with it.
PostRecipientsDelete_Cascade(id) ==
  /\ recipients' = IF id # 0 /\ id \in DOMAIN recipients
                     THEN [recipients EXCEPT ![id].deleted_at = Today]
                     ELSE recipients
  /\ requests' = [r \in DOMAIN requests |->
                    IF requests[r].recipient_id = id
                      THEN [requests[r] EXCEPT !.deleted_at = Today]
                      ELSE requests[r]]
  /\ last' = Answer("/recipients/delete", Redirect)
  /\ UNCHANGED <<blood_types, donors, donations, inventory>>

PostRecipientsDelete(id) ==
  /\ recipients' = IF id # 0 /\ id \in DOMAIN recipients
                     THEN [recipients EXCEPT ![id].deleted_at = Today]
                     ELSE recipients
  /\ last' = Answer("/recipients/delete", Redirect)
  /\ UNCHANGED <<blood_types, donors, donations, inventory, requests>>

PostFulfill(id) ==
  IF id = 0
    THEN /\ last' = Answer("/fulfill", Redirect)
         /\ NoDbChange
    ELSE IF id \notin DOMAIN requests
      THEN /\ last' = Answer("/fulfill", "Request not found.")
           /\ NoDbChange
      ELSE LET units == requests[id].units
               bloodTypeID == recipients[requests[id].recipient_id].blood_type_id
               c == consumeInventoryByTypeID(inventory, bloodTypeID, units)
           IN IF ~c.ok
                THEN /\ last' = Answer("/fulfill", "Not enough inventory to fulfill request.")
                     /\ inventory' = c.inventory
                     /\ UNCHANGED <<blood_types, donors, recipients, donations, requests>>
                ELSE /\ inventory' = c.inventory
                     /\ requests' = [requests EXCEPT ![id].status = Fulfilled]
                     /\ last' = Answer("/fulfill", Redirect)
                     /\ UNCHANGED <<blood_types, donors, recipients, donations>>

\* Faulty variant: the test forgets to compare the units.
FulfilledLocked_StatusOnly(oldStatus, oldUnits, status, units) ==
  oldStatus = Fulfilled /\ status # Fulfilled

\* The test that protects a fulfilled request in /requests/update.
FulfilledLocked(oldStatus, oldUnits, status, units) ==
  oldStatus = Fulfilled /\ (status # Fulfilled \/ oldUnits # units)

\* Faulty variant: every amendment of an unfulfilled request debits.
BecomesFulfilled_Always(oldStatus, status) == oldStatus # Fulfilled

\* Faulty variant: the stored status is not looked at.
BecomesFulfilled_StatusOnly(oldStatus, status) == status = Fulfilled

\* The test that makes /requests/update debit the inventory.
BecomesFulfilled(oldStatus, status) == oldStatus # Fulfilled /\ status = Fulfilled

PostRequestsUpdate(id, units, statusIn) ==
  LET status == TrimSpace(statusIn)
  IN IF id = 0 \/ units <= 0 \/ status = Empty
       THEN /\ last' = Answer("/requests/update", "Request update requires id, units, and status.")
            /\ NoDbChange
       ELSE IF ~(id \in DOMAIN requests /\ requests[id].deleted_at = NULL)
         THEN /\ last' = Answer("/requests/update", "Request not found.")
              /\ NoDbChange
         ELSE LET oldUnits == requests[id].units
                  oldStatus == requests[id].status
                  bloodTypeID == getRequestBloodTypeID(id)
                  c == consumeInventoryByTypeID(inventory, bloodTypeID, units)
              IN IF FulfilledLocked(oldStatus, oldUnits, status, units)
                   THEN /\ last' = Answer("/requests/update", "Cannot modify a fulfilled request.")
                        /\ NoDbChange
                   ELSE IF BecomesFulfilled(oldStatus, status) /\ bloodTypeID = 0
                     THEN /\ last' = Answer("/requests/update", "Request is missing blood type.")
                          /\ NoDbChange
                     ELSE IF BecomesFulfilled(oldStatus, status) /\ ~c.ok
                       THEN /\ last' = Answer("/requests/update", "Not enough inventory to fulfill request.")
                            /\ inventory' = c.inventory
                            /\ UNCHANGED <<blood_types, donors, recipients, donations, requests>>
                       ELSE /\ inventory' = IF BecomesFulfilled(oldStatus, status)
                                              THEN c.inventory
                                              ELSE inventory
                            /\ requests' = [requests EXCEPT ![id].units = units,
                                                            ![id].status = status]
                            /\ last' = Answer("/requests/update", Redirect)
                            /\ UNCHANGED <<blood_types, donors, recipients, donations>>

PostRequestsDelete(id) ==
  IF id = 0
    THEN /\ last' = Answer("/requests/delete", Redirect)
         /\ NoDbChange
    ELSE IF ~(id \in DOMAIN requests /\ requests[id].deleted_at = NULL)
      THEN /\ last' = Answer("/requests/delete", "Request not found.")
           /\ NoDbChange
      ELSE IF requests[id].status = Fulfilled
        THEN /\ last' = Answer("/requests/delete", "Cannot delete a fulfilled request.")
             /\ NoDbChange
        ELSE /\ requests' = [requests EXCEPT ![id].status = Cancelled,
                                             ![id].deleted_at = Today]
             /\ last' = Answer("/requests/delete", Redirect)
             /\ UNCHANGED <<blood_types, donors, recipients, donations, inventory>>

(***************************************************************************)
(* The service after initDB on a fresh database file, serving one request  *)
(* at a time.                                                              *)
(***************************************************************************)
NoAnswer == Answer("", "")
Idle == [pc |-> "idle", op |-> "", id |-> 0, bloodTypeID |-> 0, units |-> 0]
IdleProcs == [p \in 1..NumProcs |-> Idle]
\* The five entity tables, empty.
EmptyTables ==
  [donors |-> <<>>, recipients |-> <<>>, donations |-> <<>>,
   requests |-> <<>>, inventory |-> <<>>]

\* The start-up has completed on a database in the current schema.
Serving ==
  [pc |-> "done", schema |-> "3nf", starts |-> 1, interrupted |-> FALSE,
   inWindow |-> FALSE, hasNew |-> FALSE, legacy |-> EmptyTables, staged |-> EmptyTables,
   first |-> <<>>]

NoCalls == [p \in 1..NumCallers |-> [pc |-> "idle", label |-> Empty]]
NoLedger == [ref \in 1..MaxRefs |-> 0]

Init ==
  /\ blood_types = <<>>
  /\ donors = <<>>
  /\ recipients = <<>>
  /\ donations = <<>>
  /\ inventory = <<>>
  /\ requests = <<>>
  /\ last = NoAnswer
  /\ credited = NoLedger
  /\ debited = NoLedger
  /\ procs = IdleProcs
  /\ creditedType = <<>>
  /\ returned = {}
  /\ calls = NoCalls
  /\ mig = Serving

AddDonor == \E n \in NameInputs, b \in BloodTypeInputs : PostDonors(n, b) /\ Ghosts
AddRecipient == \E n \in NameInputs, b \in BloodTypeInputs : PostRecipients(n, b) /\ Ghosts
RecordDonation ==
  \E d \in IdInputs(donors), u \in UnitInputs, e \in ExpiryInputs :
    PostDonations(d, u, e) /\ Len(donations') <= MaxDonations /\ Ghosts
RetireDonation == \E id \in IdInputs(donations) : PostDonationsDelete(id) /\ Ghosts
CreateRequest ==
  \E r \in IdInputs(recipients), u \in UnitInputs :
    PostRequests(r, u) /\ Len(requests') <= MaxRequests /\ Ghosts
UpdateDonor ==
  \E id \in IdInputs(donors), n \in NameInputs, b \in BloodTypeInputs :
    PostDonorsUpdate(id, n, b) /\ Ghosts
DeleteDonor == \E id \in IdInputs(donors) : PostDonorsDelete(id) /\ Ghosts
UpdateRecipient ==
  \E id \in IdInputs(recipients), n \in NameInputs, b \in BloodTypeInputs :
    PostRecipientsUpdate(id, n, b) /\ Ghosts
DeleteRecipient == \E id \in IdInputs(recipients) : PostRecipientsDelete(id) /\ Ghosts
Fulfill == \E id \in IdInputs(requests) : PostFulfill(id) /\ Ghosts
Amend ==
  \E id \in IdInputs(requests), u \in UnitInputs, s \in StatusInputs :
    PostRequestsUpdate(id, u, s) /\ Ghosts
Cancel == \E id \in IdInputs(requests) : PostRequestsDelete(id) /\ Ghosts

Next ==
  \/ AddDonor
  \/ AddRecipient
  \/ RecordDonation
  \/ RetireDonation
  \/ CreateRequest
  \/ UpdateDonor
  \/ DeleteDonor
  \/ UpdateRecipient
  \/ DeleteRecipient
  \/ Fulfill
  \/ Amend
  \/ Cancel

Spec == Init /\ [][Next]_vars

(***************************************************************************)
(* The ledger alone: credits and debits on the refs of a registry, one at  *)
(* a time.  The callers pass units > 0 (the handlers reject the rest, and  *)
(* stored unit counts come from accepted forms).  credited and debited     *)
(* total the units credited and the units of the debits that returned      *)
(* true.                                                                   *)
(***************************************************************************)
LedgerLabels == << <<"O+">>, <<"A-">>, <<"B+">>, <<"AB-">> >>

LedgerInit ==
  /\ blood_types = SubSeq(LedgerLabels, 1, MaxRefs)
  /\ donors = <<>>
  /\ recipients = <<>>
  /\ donations = <<>>
  /\ inventory = <<>>
  /\ requests = <<>>
  /\ last = NoAnswer
  /\ credited = NoLedger
  /\ debited = NoLedger
  /\ procs = IdleProcs
  /\ creditedType = <<>>
  /\ returned = {}
  /\ calls = NoCalls
  /\ mig = Serving

Credit(ref, units) ==
  /\ credited[ref] + units <= MaxCredit
  /\ inventory' = upsertInventoryByTypeID(inventory, ref, units)
  /\ credited' = [credited EXCEPT ![ref] = @ + units]
  /\ last' = Answer("credit", "nil")
  /\ UNCHANGED <<blood_types, donors, recipients, donations, requests, debited, procs, sideVars>>

Debit(ref, units) ==
  LET c == consumeInventoryByTypeID(inventory, ref, units)
  IN /\ inventory' = c.inventory
     /\ debited' = IF c.ok THEN [debited EXCEPT ![ref] = @ + units] ELSE debited
     /\ last' = Answer("debit", IF c.ok THEN "true" ELSE "false")
     /\ UNCHANGED <<blood_types, donors, recipients, donations, requests, credited, procs, sideVars>>

LedgerCredit == \E ref \in 1..MaxRefs, u \in 1..MaxUnits : Credit(ref, u)
LedgerDebit == \E ref \in 1..MaxRefs, u \in 1..MaxUnits : Debit(ref, u)

LedgerNext ==
  \/ LedgerCredit
  \/ LedgerDebit

LedgerSpec == LedgerInit /\ [][LedgerNext]_vars

(***************************************************************************)
(* Concurrent /fulfill and /donations/delete handlers.  net/http runs each *)
(* request in its own goroutine and every db.QueryRow / db.Exec is its own *)
(* statement on the shared store, so handlers interleave between           *)
(* statements.  The store starts with one donor and one recipient of the   *)
(* same blood type, the donations credited and the requests Pending.       *)
(***************************************************************************)
DonationRows ==
  [1..MaxDonations -> [donor_id : {1}, units : 1..MaxUnits,
                       expiry_date : {<<"2025-12-01">>}, deleted_at : {NULL}]]
RequestRows ==
  [1..MaxRequests -> [recipient_id : {1}, units : 1..MaxUnits,
                      status : {Pending}, deleted_at : {NULL}]]

ConcInit ==
  /\ blood_types = << <<"O+">> >>
  /\ donors = << [name |-> <<"ann">>, blood_type_id |-> 1, deleted_at |-> NULL] >>
  /\ recipients = << [name |-> <<"bob">>, blood_type_id |-> 1, deleted_at |-> NULL] >>
  /\ donations \in DonationRows
  /\ inventory = << [blood_type_id |-> 1,
                     units |-> SumUnits(donations, DOMAIN donations),
                     deleted_at |-> NULL] >>
  /\ requests \in RequestRows
  /\ last = NoAnswer
  /\ credited = NoLedger
  /\ debited = NoLedger
  /\ procs = IdleProcs
  /\ creditedType = <<>>
  /\ returned = {}
  /\ calls = NoCalls
  /\ mig = Serving

Locals == UNCHANGED <<credited, debited, sideVars>>

\* /fulfill up to and including its SELECT on requests JOIN recipients.
FulfillRead(p, id) ==
  /\ procs[p].pc = "idle"
  /\ id # 0
  /\ IF id \notin DOMAIN requests
       THEN /\ last' = Answer("/fulfill", "Request not found.")
            /\ UNCHANGED procs
       ELSE /\ procs' = [procs EXCEPT ![p] =
                 [pc |-> "select", op |-> "/fulfill", id |-> id,
                  bloodTypeID |-> recipients[requests[id].recipient_id].blood_type_id,
                  units |-> requests[id].units]]
            /\ UNCHANGED last
  /\ NoDbChange
  /\ Locals

\* /donations/delete up to and including its SELECT on donations JOIN donors.
RetireRead(p, id) ==
  /\ procs[p].pc = "idle"
  /\ id # 0
  /\ IF ~(id \in DOMAIN donations /\ donations[id].deleted_at = NULL)
       THEN /\ last' = Answer("/donations/delete", "Donation not found.")
            /\ UNCHANGED procs
       ELSE /\ procs' = [procs EXCEPT ![p] =
                 [pc |-> "select", op |-> "/donations/delete", id |-> id,
                  bloodTypeID |-> donors[donations[id].donor_id].blood_type_id,
                  units |-> donations[id].units]]
            /\ UNCHANGED last
  /\ NoDbChange
  /\ Locals

RefusedMessage(op) ==
  IF op = "/fulfill"
    THEN "Not enough inventory to fulfill request."
    ELSE "Cannot delete donation because inventory is already used."

\* consumeInventoryByTypeID: the SELECT and the test of its result.
ConsumeSelectStep(p) ==
  /\ procs[p].pc = "select"
  /\ IF ConsumeCheck(inventory, procs[p].bloodTypeID, procs[p].units)
       THEN /\ procs' = [procs EXCEPT ![p].pc = "update"]
            /\ UNCHANGED last
       ELSE /\ procs' = [procs EXCEPT ![p] = Idle]
            /\ last' = Answer(procs[p].op, RefusedMessage(procs[p].op))
  /\ NoDbChange
  /\ Locals

\* consumeInventoryByTypeID: the UPDATE.
ConsumeUpdateStep(p) ==
  /\ procs[p].pc = "update"
  /\ inventory' = ConsumeUpdate(inventory, procs[p].bloodTypeID, procs[p].units)
  /\ procs' = [procs EXCEPT ![p].pc = "mark"]
  /\ UNCHANGED <<blood_types, donors, recipients, donations, requests, last>>
  /\ Locals

\* /fulfill: UPDATE requests SET status = 'Fulfilled'.
FulfillMark(p) ==
  /\ procs[p].pc = "mark"
  /\ procs[p].op = "/fulfill"
  /\ requests' = [requests EXCEPT ![procs[p].id].status = Fulfilled]
  /\ procs' = [procs EXCEPT ![p] = Idle]
  /\ last' = Answer("/fulfill", Redirect)
  /\ UNCHANGED <<blood_types, donors, recipients, donations, inventory>>
  /\ Locals

\* /donations/delete: UPDATE donations SET deleted_at = today.
RetireMark(p) ==
  /\ procs[p].pc = "mark"
  /\ procs[p].op = "/donations/delete"
  /\ donations' = [donations EXCEPT ![procs[p].id].deleted_at = Today]
  /\ procs' = [procs EXCEPT ![p] = Idle]
  /\ last' = Answer("/donations/delete", Redirect)
  /\ UNCHANGED <<blood_types, donors, recipients, requests, inventory>>
  /\ Locals

ConcFulfillRead == \E p \in 1..NumProcs, id \in 1..(Len(requests) + 1) : FulfillRead(p, id)
ConcRetireRead == \E p \in 1..NumProcs, id \in 1..(Len(donations) + 1) : RetireRead(p, id)
ConcConsumeSelect == \E p \in 1..NumProcs : ConsumeSelectStep(p)
ConcConsumeUpdate == \E p \in 1..NumProcs : ConsumeUpdateStep(p)
ConcFulfillMark == \E p \in 1..NumProcs : FulfillMark(p)
ConcRetireMark == \E p \in 1..NumProcs : RetireMark(p)

ConcNext ==
  \/ ConcFulfillRead
  \/ ConcRetireRead
  \/ ConcConsumeSelect
  \/ ConcConsumeUpdate
  \/ ConcFulfillMark
  \/ ConcRetireMark

ConcSpec == ConcInit /\ [][ConcNext]_vars

(***************************************************************************)
(* What the listing shows (loadInventory, loadDonations, loadRequests).    *)
(***************************************************************************)
\* The units of the active inventory row of a blood type, 0 without one.
BalanceOf(inv, bloodTypeID) ==
  LET i == InventoryRowOf(inv, bloodTypeID)
  IN IF i # 0 /\ inv[i].deleted_at = NULL THEN inv[i].units ELSE 0

\* The blood type a donation or a request is listed under: its donor's or
\* recipient's.
DonationBloodTypeID(d) == donors[donations[d].donor_id].blood_type_id
RequestBloodTypeID(r) == recipients[requests[r].recipient_id].blood_type_id

ActiveDonationUnits(bloodTypeID) ==
  SumUnits(donations, {d \in DOMAIN donations :
                         /\ donations[d].deleted_at = NULL
                         /\ DonationBloodTypeID(d) = bloodTypeID})

FulfilledRequestUnits(bloodTypeID) ==
  SumUnits(requests, {r \in DOMAIN requests :
                        /\ requests[r].status = Fulfilled
                        /\ RequestBloodTypeID(r) = bloodTypeID})

(***************************************************************************)
(* Claims on the handlers, one request at a time (Spec).                   *)
(***************************************************************************)

\* C3: in every state the balance of each blood type is the units of its
\* active donations minus the units of its Fulfilled requests.
C3_BalanceIsDonationsMinusFulfilled ==
  \A b \in DOMAIN blood_types :
    BalanceOf(inventory, b) = ActiveDonationUnits(b) - FulfilledRequestUnits(b)

\* C5: fulfilling a Pending request whose units exceed the balance of its
\* recipient's blood type is rejected; the request stays Pending and no
\* balance changes.
C5_FulfillRejectedWhenInsufficient ==
  [][\A id \in DOMAIN requests :
       ( /\ last'.op = "/fulfill"
         /\ requests[id].status = Pending
         /\ requests[id].units > BalanceOf(inventory, RequestBloodTypeID(id))
         /\ PostFulfill(id) )
       => /\ last'.msg = "Not enough inventory to fulfill request."
          /\ requests' = requests
          /\ inventory' = inventory]_vars

C5_Witness ==
  /\ last = Answer("/fulfill", "Not enough inventory to fulfill request.")
  /\ \E id \in DOMAIN requests :
       /\ requests[id].status = Pending
       /\ requests[id].units > BalanceOf(inventory, RequestBloodTypeID(id))
       /\ BalanceOf(inventory, RequestBloodTypeID(id)) > 0

\* C6: a fulfill call on a request that is not Pending does not debit the
\* ledger, so a request causes at most one debit.
C6_FulfillOnlyFromPending ==
  [][\A id \in DOMAIN requests :
       (requests[id].status # Pending /\ PostFulfill(id))
       => inventory' = inventory]_vars

\* C7: the only status transitions are Pending to Fulfilled and Pending to
\* Cancelled.
C7_OnlyLegalTransitions ==
  [][\A id \in DOMAIN requests :
       requests'[id].status # requests[id].status
       => /\ requests[id].status = Pending
          /\ requests'[id].status \in {Fulfilled, Cancelled}]_vars

\* C8: amend on a Fulfilled request is rejected, the request row and every
\* balance unchanged, when the submitted units differ from the stored ones
\* or the submitted status is not Fulfilled.
C8_FulfilledAmendRejected ==
  [][\A id \in DOMAIN requests, u \in UnitInputs, s \in StatusInputs :
       ( /\ last'.op = "/requests/update"
         /\ requests[id].status = Fulfilled
         /\ (u # requests[id].units \/ TrimSpace(s) # Fulfilled)
         /\ PostRequestsUpdate(id, u, s) )
       => /\ last'.msg # Redirect
          /\ requests' = requests
          /\ inventory' = inventory]_vars

C8_Witness ==
  /\ last = Answer("/requests/update", "Cannot modify a fulfilled request.")
  /\ \E id \in DOMAIN requests :
       requests[id].status = Fulfilled /\ requests[id].deleted_at = NULL

\* C9: once a request is Fulfilled no operation changes its units or the
\* blood type it resolves to.
C9_FulfilledFrozen ==
  [][\A id \in DOMAIN requests :
       requests[id].status = Fulfilled
       => /\ requests'[id].units = requests[id].units
          /\ recipients'[requests'[id].recipient_id].blood_type_id
               = RequestBloodTypeID(id)]_vars

\* C10: retiring an active donation while the balance of its donor's blood
\* type is below the donation's units is rejected; the donation stays
\* active and no balance changes.
C10_RetireRejectedWhenConsumed ==
  [][\A id \in DOMAIN donations :
       ( /\ last'.op = "/donations/delete"
         /\ donations[id].deleted_at = NULL
         /\ BalanceOf(inventory, DonationBloodTypeID(id)) < donations[id].units
         /\ PostDonationsDelete(id) )
       => /\ last'.msg = "Cannot delete donation because inventory is already used."
          /\ donations' = donations
          /\ inventory' = inventory]_vars

C10_Witness ==
  /\ last = Answer("/donations/delete",
                   "Cannot delete donation because inventory is already used.")
  /\ \E id \in DOMAIN donations :
       /\ donations[id].deleted_at = NULL
       /\ BalanceOf(inventory, DonationBloodTypeID(id)) < donations[id].units

(***************************************************************************)
(* Claims on the ledger alone (LedgerSpec).                                *)
(***************************************************************************)

\* C1: under any sequence of credits and debits executed one at a time the
\* balance of a ref is never negative and equals the units credited minus
\* the units of the debits that returned true.
C1_BalanceIsCreditsMinusDebits ==
  /\ \A i \in DOMAIN inventory : inventory[i].units >= 0
  /\ \A ref \in 1..MaxRefs :
       /\ BalanceOf(inventory, ref) >= 0
       /\ BalanceOf(inventory, ref) = credited[ref] - debited[ref]

C1_Witness ==
  /\ last = Answer("debit", "false")
  /\ \E ref \in 1..MaxRefs :
       /\ debited[ref] > 0
       /\ credited[ref] > debited[ref]

\* C4: debit(ref, units) returns false and changes no balance when units
\* exceeds the balance of ref or ref has no balance row; otherwise it
\* returns true and lowers the balance of ref, and only that one, by units.
C4_DebitContract ==
  \A ref \in 1..MaxRefs, u \in 1..(MaxCredit + 1) :
    LET c == consumeInventoryByTypeID(inventory, ref, u)
    IN IF u > BalanceOf(inventory, ref) \/ InventoryRowOf(inventory, ref) = 0
         THEN ~c.ok /\ c.inventory = inventory
         ELSE /\ c.ok
              /\ BalanceOf(c.inventory, ref) = BalanceOf(inventory, ref) - u
              /\ \A o \in 1..MaxRefs :
                   o # ref => BalanceOf(c.inventory, o) = BalanceOf(inventory, o)
              /\ Len(c.inventory) = Len(inventory)

C4_Witness ==
  /\ last = Answer("debit", "true")
  /\ \E ref \in 1..MaxRefs :
       /\ InventoryRowOf(inventory, ref) = 0
       /\ ~consumeInventoryByTypeID(inventory, ref, 1).ok
  /\ \E ref \in 1..MaxRefs :
       /\ BalanceOf(inventory, ref) = 1
       /\ ~consumeInventoryByTypeID(inventory, ref, 2).ok
       /\ consumeInventoryByTypeID(inventory, ref, 1).ok

(***************************************************************************)
(* Claims on concurrent handlers (ConcSpec).                               *)
(***************************************************************************)

\* C2: two concurrent debits on one ref never both pass the sufficiency
\* test against the same balance and jointly drive the balance below zero.
C2_ConcurrentDebitsNeverOverdraw ==
  \A i \in DOMAIN inventory : inventory[i].units >= 0

(***************************************************************************)
(* Rejections.                                                             *)
(***************************************************************************)
\* The flash messages of the business-rule rejections, by kind.
InvalidArgument ==
  { "Donor name and blood type are required.",
    "Recipient name and blood type are required.",
    "Donation requires donor, units, and expiry date.",
    "Request requires recipient and units.",
    "Donor update requires id, name, and blood type.",
    "Recipient update requires id, name, and blood type.",
    "Request update requires id, units, and status." }

NotFound ==
  { "Donation requires a valid donor with blood type.",
    "Request requires a valid recipient with blood type.",
    "Donation not found.",
    "Request not found.",
    "Request is missing blood type." }

InsufficientInventory ==
  { "Not enough inventory to fulfill request.",
    "Cannot delete donation because inventory is already used." }

ImmutableFulfilledRequest ==
  { "Cannot modify a fulfilled request.",
    "Cannot delete a fulfilled request." }

BusinessRejections ==
  InvalidArgument \cup NotFound \cup InsufficientInventory
    \cup ImmutableFulfilledRequest

\* C17: an operation that ends in a business-rule rejection leaves the
\* registry, donors, recipients, donations, requests and inventory as
\* they were before the call.
C17_RejectionChangesNothing ==
  [][last'.msg \in BusinessRejections => db' = db]_vars

\* A debit has been refused while the store held a stock row with units.
C17_Witness ==
  /\ last.msg \in InsufficientInventory
  /\ \E i \in DOMAIN inventory : inventory[i].units > 0

\* A row that is missing from its table or soft-deleted.
Gone(table, id) == id \notin DOMAIN table \/ table[id].deleted_at # NULL

\* The answer the missing row gets: a rejection, and nothing written.
NotFoundAnswer == last'.msg \in NotFound /\ db' = db

\* C18: an operation that names a donor, recipient, donation or request
\* that does not exist or is soft-deleted is rejected as NotFound and
\* changes nothing.
C18_GoneIsNotFound ==
  [][/\ \A id \in IdInputs(requests) \ {0} :
          ( /\ Gone(requests, id)
            /\ last'.op \in {"/fulfill", "/requests/update", "/requests/delete"}
            /\ \/ PostFulfill(id)
               \/ PostRequestsDelete(id)
               \/ \E u \in UnitInputs \ {0}, st \in StatusInputs :
                     TrimSpace(st) # Empty /\ PostRequestsUpdate(id, u, st) )
          => NotFoundAnswer
     /\ \A id \in IdInputs(donations) \ {0} :
          ( /\ Gone(donations, id)
            /\ last'.op = "/donations/delete"
            /\ PostDonationsDelete(id) )
          => NotFoundAnswer
     /\ \A id \in IdInputs(donors) \ {0} :
          ( /\ Gone(donors, id)
            /\ last'.op \in {"/donations", "/donors/update"}
            /\ \/ \E u \in UnitInputs \ {0}, e \in ExpiryInputs :
                     TrimSpace(e) # Empty /\ PostDonations(id, u, e)
               \/ \E n \in NameInputs, b \in BloodTypeInputs :
                     /\ TrimSpace(n) # Empty
                     /\ normalizeBloodType(b) # Empty
                     /\ PostDonorsUpdate(id, n, b) )
          => NotFoundAnswer
     /\ \A id \in IdInputs(recipients) \ {0} :
          ( /\ Gone(recipients, id)
            /\ last'.op \in {"/requests", "/recipients/update"}
            /\ \/ \E u \in UnitInputs \ {0} : PostRequests(id, u)
               \/ \E n \in NameInputs, b \in BloodTypeInputs :
                     /\ TrimSpace(n) # Empty
                     /\ normalizeBloodType(b) # Empty
                     /\ PostRecipientsUpdate(id, n, b) )
          => NotFoundAnswer]_vars

\* C20: in every reachable state the status of every request is Pending,
\* Fulfilled or Cancelled.
C20_StatusInDomain ==
  \A r \in DOMAIN requests : requests[r].status \in {Pending, Fulfilled, Cancelled}

(***************************************************************************)
(* Donations over a donor whose blood type changes: the handlers of        *)
(* /donors, /donors/update, /donations and /donations/delete, with up to   *)
(* MaxRecorded donations and expiry values that are not dates.             *)
(***************************************************************************)
MaxRecorded == 2

Dates == { <<"2025-12-01">> }
DonationExpiryInputs == ExpiryInputs \cup { <<"not-a-date">> }

\* The expiry the form sends is a date (what <input type="date"> submits).
WellFormedDate(expiry) == expiry \in Dates

\* /donations, remembering the blood type each new row credited.
RecordTracked ==
  \E d \in IdInputs(donors), u \in UnitInputs, e \in DonationExpiryInputs :
    /\ PostDonations(d, u, e)
    /\ Len(donations') <= MaxRecorded
    /\ creditedType' = IF Len(donations') > Len(donations)
                         THEN Append(creditedType, getDonorBloodTypeID(d))
                         ELSE creditedType
    /\ UNCHANGED <<credited, debited, procs, returned, calls, mig>>

DonationNext ==
  \/ AddDonor
  \/ UpdateDonor
  \/ DeleteDonor
  \/ RecordTracked
  \/ RetireDonation

DonationSpec == Init /\ [][DonationNext]_vars

\* C11: a donation becomes soft-deleted only in a step that debits exactly
\* its units from the blood type its recording credited.
C11_RetireDebitsWhatWasCredited ==
  [][\A d \in DOMAIN donations :
       (donations[d].deleted_at = NULL /\ donations'[d].deleted_at # NULL)
       => BalanceOf(inventory', creditedType[d])
            = BalanceOf(inventory, creditedType[d]) - donations[d].units]_vars

\* C19: a donation row exists only with positive units and an expiry that
\* is a well-formed date.
C19_DonationRowsValidated ==
  \A d \in DOMAIN donations :
    donations[d].units > 0 /\ WellFormedDate(donations[d].expiry_date)

(***************************************************************************)
(* The walk-through of the lifecycle: one donor, one recipient, one        *)
(* donation and up to MaxScenarioRequests requests, with /fulfill.         *)
(***************************************************************************)
MaxScenarioRequests == 2

ScenarioCreateRequest ==
  \E r \in IdInputs(recipients), u \in UnitInputs :
    PostRequests(r, u) /\ Len(requests') <= MaxScenarioRequests /\ Ghosts

ScenarioNext ==
  \/ AddDonor
  \/ AddRecipient
  \/ RecordDonation
  \/ ScenarioCreateRequest
  \/ Fulfill

ScenarioSpec == Init /\ [][ScenarioNext]_vars

OPos == BloodTypeIdOf(blood_types, <<"O+">>)

\* C14: from an empty store a 2-unit donation of O+ makes the balance 2;
\* fulfilling a 2-unit request for O+ makes it 0 and the request
\* Fulfilled; fulfilling a further request for 1 unit is rejected with the
\* balance still 0.
C14_Scenario ==
  [][/\ \A d \in DOMAIN donors, e \in ExpiryInputs :
          ( /\ donations = <<>> /\ inventory = <<>> /\ requests = <<>>
            /\ donors[d].blood_type_id = OPos /\ donors[d].deleted_at = NULL
            /\ TrimSpace(e) # Empty
            /\ PostDonations(d, 2, e) )
          => BalanceOf(inventory', OPos) = 2
     /\ \A r \in DOMAIN requests :
          ( /\ last'.op = "/fulfill"
            /\ requests[r].status = Pending /\ requests[r].deleted_at = NULL
            /\ RequestBloodTypeID(r) = OPos
            /\ PostFulfill(r) )
          => /\ (requests[r].units = 2 /\ BalanceOf(inventory, OPos) = 2)
                  => /\ BalanceOf(inventory', OPos) = 0
                     /\ requests'[r].status = Fulfilled
                     /\ last'.msg = Redirect
             /\ (requests[r].units = 1 /\ BalanceOf(inventory, OPos) = 0)
                  => /\ last'.msg \in InsufficientInventory
                     /\ BalanceOf(inventory', OPos) = 0
                     /\ requests' = requests]_vars

\* The end of the walk-through: the 2-unit request Fulfilled, the 1-unit
\* request refused and still Pending, the balance of O+ at 0.
C14_Witness ==
  /\ Len(donations) = 1 /\ donations[1].units = 2
  /\ Len(requests) = 2
  /\ requests[1].units = 2 /\ requests[1].status = Fulfilled
  /\ requests[2].units = 1 /\ requests[2].status = Pending
  /\ OPos # 0 /\ BalanceOf(inventory, OPos) = 0
  /\ DonationBloodTypeID(1) = OPos
  /\ last = Answer("/fulfill", "Not enough inventory to fulfill request.")

(***************************************************************************)
(* getOrCreateBloodTypeID statement by statement, called by NumCallers     *)
(* concurrent handlers: the SELECT and the INSERT are two statements, and  *)
(* the column blood_types.type is UNIQUE.                                  *)
(***************************************************************************)
MaxRegistry == 3

\* Faulty variant: the column is not UNIQUE.
InsertBloodType_NoUnique(bts, label) ==
  [err |-> FALSE, id |-> Len(bts) + 1, blood_types |-> Append(bts, label)]

\* INSERT INTO blood_types (type) VALUES (?), type being UNIQUE.
InsertBloodType(bts, label) ==
  IF BloodTypeIdOf(bts, label) # 0
    THEN [err |-> TRUE, id |-> 0, blood_types |-> bts]
    ELSE [err |-> FALSE, id |-> Len(bts) + 1, blood_types |-> Append(bts, label)]

RegistryUnchanged ==
  UNCHANGED <<donors, recipients, donations, inventory, requests,
              credited, debited, procs, creditedType, mig>>

\* normalizeBloodType, the test for "", and SELECT id FROM blood_types.
RegistrySelect(p, bloodTypeIn) ==
  LET bloodType == normalizeBloodType(bloodTypeIn)
      id == BloodTypeIdOf(blood_types, bloodType)
  IN /\ calls[p].pc = "idle"
     /\ IF bloodType = Empty
          THEN /\ last' = Answer("getOrCreateBloodTypeID", "blood type required")
               /\ UNCHANGED <<calls, returned>>
          ELSE IF id # 0
            THEN /\ last' = Answer("getOrCreateBloodTypeID", "nil")
                 /\ returned' = returned \cup {<<bloodType, id>>}
                 /\ UNCHANGED calls
            ELSE /\ calls' = [calls EXCEPT ![p] = [pc |-> "insert", label |-> bloodType]]
                 /\ UNCHANGED <<last, returned>>
     /\ UNCHANGED blood_types
     /\ RegistryUnchanged

\* The INSERT after sql.ErrNoRows, and the return of LastInsertId.
RegistryInsert(p) ==
  LET r == InsertBloodType(blood_types, calls[p].label)
  IN /\ calls[p].pc = "insert"
     /\ Len(blood_types) < MaxRegistry
     /\ blood_types' = r.blood_types
     /\ calls' = [calls EXCEPT ![p] = [pc |-> "idle", label |-> Empty]]
     /\ IF r.err
          THEN /\ last' = Answer("getOrCreateBloodTypeID", "UNIQUE constraint failed")
               /\ UNCHANGED returned
          ELSE /\ last' = Answer("getOrCreateBloodTypeID", "nil")
               /\ returned' = returned \cup {<<calls[p].label, r.id>>}
     /\ RegistryUnchanged

RegistryCallSelect == \E p \in 1..NumCallers, b \in BloodTypeInputs : RegistrySelect(p, b)
RegistryCallInsert == \E p \in 1..NumCallers : RegistryInsert(p)

RegistryNext ==
  \/ RegistryCallSelect
  \/ RegistryCallInsert

RegistrySpec == Init /\ [][RegistryNext]_vars

\* C15: getOrCreateBloodTypeID never returns two distinct refs for the same
\* normalized label, under any interleaving of concurrent calls, and the
\* registry never holds two entries with the same label.
C15_OneRefPerLabel ==
  /\ \A x \in returned, y \in returned : x[1] = y[1] => x[2] = y[2]
  /\ \A i \in DOMAIN blood_types, j \in DOMAIN blood_types :
        blood_types[i] = blood_types[j] => i = j
  /\ \A x \in returned : x[2] \in DOMAIN blood_types /\ blood_types[x[2]] = x[1]

\* Two calls with the same new label both missed in their SELECT; the
\* INSERT of the second was refused and the first returned the ref.
C15_Witness ==
  /\ last = Answer("getOrCreateBloodTypeID", "UNIQUE constraint failed")
  /\ returned # {}

(***************************************************************************)
(* One handler at a time, statement by statement, where the statement      *)
(* about to run may return an error: /donations, /fulfill and              *)
(* /donations/delete issue their two writes as separate db.Exec calls      *)
(* outside any transaction.                                                *)
(***************************************************************************)
\* /donations up to and including INSERT INTO donations.
RecordInsert(p, donorID, units, expiryIn) ==
  LET expiry == TrimSpace(expiryIn)
      bloodTypeID == getDonorBloodTypeID(donorID)
  IN /\ procs[p].pc = "idle"
     /\ IF donorID = 0 \/ units <= 0 \/ expiry = Empty
          THEN /\ last' = Answer("/donations", "Donation requires donor, units, and expiry date.")
               /\ UNCHANGED <<procs, donations>>
          ELSE IF bloodTypeID = 0
            THEN /\ last' = Answer("/donations", "Donation requires a valid donor with blood type.")
                 /\ UNCHANGED <<procs, donations>>
            ELSE /\ Len(donations) < MaxRecorded
                 /\ donations' = Append(donations, [donor_id |-> donorID, units |-> units,
                                                    expiry_date |-> expiry, deleted_at |-> NULL])
                 /\ procs' = [procs EXCEPT ![p] =
                      [pc |-> "credit", op |-> "/donations", id |-> Len(donations) + 1,
                       bloodTypeID |-> bloodTypeID, units |-> units]]
                 /\ UNCHANGED last
     /\ UNCHANGED <<blood_types, donors, recipients, inventory, requests>>
     /\ Locals

\* /donations: upsertInventoryByTypeID and the redirect.
RecordCredit(p) ==
  /\ procs[p].pc = "credit"
  /\ inventory' = upsertInventoryByTypeID(inventory, procs[p].bloodTypeID, procs[p].units)
  /\ procs' = [procs EXCEPT ![p] = Idle]
  /\ last' = Answer("/donations", Redirect)
  /\ UNCHANGED <<blood_types, donors, recipients, donations, requests>>
  /\ Locals

\* What the handler renders when the statement at pc returns an error.
FailureMessage(op, pc) ==
  IF pc = "credit" THEN "Donation saved, but inventory update failed."
  ELSE IF pc \in {"select", "update"} THEN "Inventory update failed."
  ELSE IF op = "/fulfill" THEN "Could not update request."
  ELSE "Could not delete donation."

\* The statement about to run returns an error: the handler renders the
\* message and returns; what earlier statements wrote stays written.
StatementFails(p) ==
  /\ procs[p].pc \in {"credit", "select", "update", "mark"}
  /\ last' = Answer(procs[p].op, FailureMessage(procs[p].op, procs[p].pc))
  /\ procs' = [procs EXCEPT ![p] = Idle]
  /\ NoDbChange
  /\ Locals

FaultRecordInsert ==
  \E d \in IdInputs(donors), u \in UnitInputs, e \in ExpiryInputs : RecordInsert(1, d, u, e)
FaultRecordCredit == RecordCredit(1)
FaultFulfillRead == \E id \in 1..(Len(requests) + 1) : FulfillRead(1, id)
FaultRetireRead == \E id \in 1..(Len(donations) + 1) : RetireRead(1, id)
FaultConsumeSelect == ConsumeSelectStep(1)
FaultConsumeUpdate == ConsumeUpdateStep(1)
FaultFulfillMark == FulfillMark(1)
FaultRetireMark == RetireMark(1)
FaultStatementFails == StatementFails(1)

FaultNext ==
  \/ FaultRecordInsert
  \/ FaultRecordCredit
  \/ FaultFulfillRead
  \/ FaultRetireRead
  \/ FaultConsumeSelect
  \/ FaultConsumeUpdate
  \/ FaultFulfillMark
  \/ FaultRetireMark
  \/ FaultStatementFails

FaultSpec == ConcInit /\ [][FaultNext]_vars

\* C16: when the handler returns, the entity write and its paired
\* inventory write have both been applied or neither: a donation row is
\* never left without its credit, nor a debit without the request marked
\* Fulfilled or the donation marked soft-deleted.
C16_PairedWritesTogether ==
  [][\A p \in 1..NumProcs :
       (procs[p].pc # "idle" /\ procs'[p].pc = "idle")
       => /\ procs[p].pc = "credit"
               => BalanceOf(inventory', procs[p].bloodTypeID)
                    = BalanceOf(inventory, procs[p].bloodTypeID) + procs[p].units
          /\ (procs[p].pc = "mark" /\ procs[p].op = "/fulfill")
               => requests'[procs[p].id].status = Fulfilled
          /\ (procs[p].pc = "mark" /\ procs[p].op = "/donations/delete")
               => donations'[procs[p].id].deleted_at # NULL]_vars

(***************************************************************************)
(* Start-up on a database file left by the earlier version of the program  *)
(* (blood types as text columns) or by this one: initDB runs the schema    *)
(* script and migrateTo3NF, every statement its own db.Exec in autocommit. *)
(* mig.pc names the group of statements about to run; the process may be   *)
(* stopped between groups and started again.  Until the swap the tables    *)
(* donors .. requests of the file are the old ones, held in mig.legacy.    *)
(***************************************************************************)
MaxLegacyDonations == 2
MaxStarts == 3

\* Blood types as the earlier version stored them: trimmed, case kept.
LegacyLabels == { <<"o+">>, <<"O+">>, <<"A-">> }
Unknown == <<"UNKNOWN">>

\* upsertInventory of the earlier version: the row is found by its text.
LegacyUpsert(inv, bloodType, units) ==
  IF \E i \in DOMAIN inv : inv[i].blood_type = bloodType
    THEN [i \in DOMAIN inv |->
            IF inv[i].blood_type = bloodType
              THEN [inv[i] EXCEPT !.units = @ + units, !.deleted_at = NULL]
              ELSE inv[i]]
    ELSE Append(inv, [blood_type |-> bloodType, units |-> units, deleted_at |-> NULL])

\* The inventory the earlier version built while recording the donations.
RECURSIVE LegacyInventoryOf(_)
LegacyInventoryOf(dons) ==
  IF dons = <<>>
    THEN <<>>
    ELSE LET n == Len(dons)
         IN LegacyUpsert(LegacyInventoryOf(SubSeq(dons, 1, n - 1)),
                         dons[n].blood_type, dons[n].units)

LegacyPeople ==
  { <<>> } \cup { << [name |-> <<"ann">>, blood_type |-> b, deleted_at |-> NULL] >> :
                   b \in LegacyLabels }
LegacyDonationRow ==
  [donor_id : {1}, blood_type : LegacyLabels, units : {1},
   expiry_date : {<<"2025-12-01">>}, deleted_at : {NULL}]
LegacyDonations ==
  UNION { [1..n -> LegacyDonationRow] : n \in 0..MaxLegacyDonations }
LegacyRequests ==
  { <<>>, << [recipient_id |-> 1, blood_type |-> <<"O+">>, units |-> 1,
              status |-> Pending, deleted_at |-> NULL] >> }

\* Files the earlier version can have left: donations need their donor,
\* requests their recipient, and the inventory is what the donations built.
LegacyDatabases ==
  { l \in { [donors |-> ds, recipients |-> rs, donations |-> dn, requests |-> rq,
             inventory |-> LegacyInventoryOf(dn)] :
               ds \in LegacyPeople, rs \in LegacyPeople,
               dn \in LegacyDonations, rq \in LegacyRequests } :
      /\ l.donations # <<>> => l.donors # <<>>
      /\ l.requests # <<>> => l.recipients # <<>> }

\* INSERT OR IGNORE INTO blood_types (type) VALUES (label).
InsertOrIgnore(bts, label) ==
  IF BloodTypeIdOf(bts, label) # 0 THEN bts ELSE Append(bts, label)

\* INSERT OR IGNORE ... SELECT DISTINCT UPPER(TRIM(blood_type)) FROM table
\* WHERE TRIM(blood_type) <> '', in row order.
RECURSIVE InsertLabels(_, _)
InsertLabels(bts, rows) ==
  IF rows = <<>>
    THEN bts
    ELSE LET label == normalizeBloodType(Head(rows).blood_type)
         IN InsertLabels(IF label = Empty THEN bts ELSE InsertOrIgnore(bts, label),
                         Tail(rows))

\* COALESCE((SELECT id .. WHERE type = UPPER(TRIM(blood_type))),
\*          (SELECT id .. WHERE type = 'UNKNOWN')).
ResolveRef(bts, bloodType) ==
  LET id == BloodTypeIdOf(bts, normalizeBloodType(bloodType))
  IN IF id # 0 THEN id ELSE BloodTypeIdOf(bts, Unknown)

\* The rows the INSERT .. SELECT statements put into the *_new tables.
CopyPeople(bts, rows) ==
  [i \in DOMAIN rows |-> [name |-> rows[i].name,
                           blood_type_id |-> ResolveRef(bts, rows[i].blood_type),
                           deleted_at |-> rows[i].deleted_at]]
CopyDonations(rows) ==
  [i \in DOMAIN rows |-> [donor_id |-> rows[i].donor_id, units |-> rows[i].units,
                           expiry_date |-> rows[i].expiry_date,
                           deleted_at |-> rows[i].deleted_at]]
CopyRequests(rows) ==
  [i \in DOMAIN rows |-> [recipient_id |-> rows[i].recipient_id, units |-> rows[i].units,
                           status |-> rows[i].status, deleted_at |-> rows[i].deleted_at]]
CopyInventory(bts, rows) ==
  [i \in DOMAIN rows |-> [blood_type_id |-> ResolveRef(bts, rows[i].blood_type),
                           units |-> rows[i].units, deleted_at |-> rows[i].deleted_at]]

\* inventory_new.blood_type_id is UNIQUE.
UniqueRefs(inv) ==
  \A i \in DOMAIN inv, j \in DOMAIN inv :
    inv[i].blood_type_id = inv[j].blood_type_id => i = j

\* A database already in the current schema: a fresh one, or one in use.
FreshDatabase == <<<<>>, <<>>, <<>>, <<>>, <<>>, <<>>>>
MigratedDatabases ==
  { FreshDatabase,
    << << <<"O+">> >>,
       << [name |-> <<"ann">>, blood_type_id |-> 1, deleted_at |-> NULL] >>,
       <<>>,
       << [donor_id |-> 1, units |-> 1, expiry_date |-> <<"2025-12-01">>,
           deleted_at |-> NULL] >>,
       << [blood_type_id |-> 1, units |-> 1, deleted_at |-> NULL] >>,
       <<>> >> }

MigInit ==
  /\ last = NoAnswer
  /\ credited = NoLedger
  /\ debited = NoLedger
  /\ procs = IdleProcs
  /\ creditedType = <<>>
  /\ returned = {}
  /\ calls = NoCalls
  /\ \E m \in MigratedDatabases :
       /\ blood_types = m[1]
       /\ donors = m[2]
       /\ recipients = m[3]
       /\ donations = m[4]
       /\ inventory = m[5]
       /\ requests = m[6]
       /\ \/ mig = [Serving EXCEPT !.pc = "start"]
          \/ /\ m = FreshDatabase
             /\ mig \in { [Serving EXCEPT !.pc = "start", !.schema = "legacy",
                                          !.legacy = l] : l \in LegacyDatabases }

MigUnchanged ==
  UNCHANGED <<last, credited, debited, procs, histVars>>

\* initDB reached its end: the first time, remember what it left.
Completed(m, tables) ==
  [m EXCEPT !.pc = "done",
            !.first = IF m.first = <<>> THEN <<tables>> ELSE @]

\* db.Exec(schema), all CREATE TABLE IF NOT EXISTS, and the probe of
\* migrateTo3NF for the column donors.blood_type.  Without that column
\* migrateTo3NF returns, and ensureColumn and the index find all in place.
StartUp ==
  /\ mig.pc = "start"
  /\ mig' = IF mig.schema = "legacy"
              THEN [mig EXCEPT !.pc = "labels"]
              ELSE Completed(mig, db)
  /\ NoDbChange
  /\ MigUnchanged

\* PRAGMA foreign_keys = OFF, CREATE TABLE IF NOT EXISTS blood_types, and
\* the four INSERT OR IGNORE of the labels.
CollectLabels ==
  /\ mig.pc = "labels"
  /\ blood_types' =
       InsertOrIgnore(
         InsertLabels(InsertLabels(InsertLabels(blood_types, mig.legacy.donors),
                                   mig.legacy.recipients),
                      mig.legacy.inventory),
         Unknown)
  /\ mig' = [mig EXCEPT !.pc = "create"]
  /\ UNCHANGED <<donors, recipients, donations, inventory, requests>>
  /\ MigUnchanged

\* CREATE TABLE donors_new .. inventory_new, without IF NOT EXISTS: an
\* error when the table is there already.
CreateNew ==
  /\ mig.pc = "create"
  /\ mig' = IF mig.hasNew
              THEN [mig EXCEPT !.pc = "failed"]
              ELSE [mig EXCEPT !.pc = "copy", !.hasNew = TRUE]
  /\ NoDbChange
  /\ MigUnchanged

\* The five INSERT INTO *_new .. SELECT, inventory last; a statement that
\* violates UNIQUE inserts nothing and migrateTo3NF returns its error.
CopyRows ==
  LET inv == CopyInventory(blood_types, mig.legacy.inventory)
      copied == [donors |-> CopyPeople(blood_types, mig.legacy.donors),
                 recipients |-> CopyPeople(blood_types, mig.legacy.recipients),
                 donations |-> CopyDonations(mig.legacy.donations),
                 requests |-> CopyRequests(mig.legacy.requests),
                 inventory |-> <<>>]
  IN /\ mig.pc = "copy"
     /\ mig' = IF UniqueRefs(inv)
                 THEN [mig EXCEPT !.pc = "swap",
                                  !.staged = [copied EXCEPT !.inventory = inv]]
                 ELSE [mig EXCEPT !.pc = "failed", !.staged = copied]
     /\ NoDbChange
     /\ MigUnchanged

\* DROP TABLE of the five old tables, ALTER TABLE .. RENAME of the five new
\* ones, PRAGMA foreign_keys = ON; then ensureColumn and the index.
Swap ==
  /\ mig.pc = "swap"
  /\ donors' = mig.staged.donors
  /\ recipients' = mig.staged.recipients
  /\ donations' = mig.staged.donations
  /\ requests' = mig.staged.requests
  /\ inventory' = mig.staged.inventory
  /\ UNCHANGED blood_types
  /\ mig' = Completed([mig EXCEPT !.schema = "3nf", !.hasNew = FALSE,
                                  !.legacy = EmptyTables, !.staged = EmptyTables],
                      db')
  /\ MigUnchanged

\* The process is stopped in the middle of migrateTo3NF and started again;
\* inWindow records a stop after the CREATE TABLE statements and before the
\* first DROP TABLE.
Interrupt ==
  /\ mig.pc \in {"labels", "create", "copy", "swap"}
  /\ mig.starts < MaxStarts
  /\ mig' = [mig EXCEPT !.pc = "start", !.starts = @ + 1, !.interrupted = TRUE,
                         !.inWindow = @ \/ mig.pc \in {"copy", "swap"}]
  /\ NoDbChange
  /\ MigUnchanged

\* The program is started again: after a completed start-up, or after
\* log.Fatal ended the process on the error of initDB.
StartAgain ==
  /\ mig.pc \in {"done", "failed"}
  /\ mig.starts < MaxStarts
  /\ mig' = [mig EXCEPT !.pc = "start", !.starts = @ + 1]
  /\ NoDbChange
  /\ MigUnchanged

MigNext ==
  \/ StartUp
  \/ CollectLabels
  \/ CreateNew
  \/ CopyRows
  \/ Swap
  \/ Interrupt
  \/ StartAgain

MigSpec == MigInit /\ [][MigNext]_vars

\* C12: from any legacy or already migrated database, running the
\* migration twice in a row completes both times, and the second run leaves
\* the schema and the rows as the first left them.
C12_MigrationIdempotent ==
  ~mig.interrupted
    => /\ mig.pc # "failed"
       /\ (mig.pc = "done" /\ mig.starts >= 2)
            => (mig.schema = "3nf" /\ ~mig.hasNew /\ mig.first = <<db>>)

\* C13: a run stopped after the replacement tables were created and before
\* the swap is recovered by the next start-up, which runs to completion.
C13_InterruptedRunRecovers ==
  mig.inWindow
    => /\ mig.pc # "failed"
       /\ mig.pc = "done" => (mig.schema = "3nf" /\ ~mig.hasNew)

(***************************************************************************)
(* Rows are kept; units are positive.                                      *)
(***************************************************************************)
\* C24: no handler removes a donor, recipient, donation or request row:
\* the ids of each table never shrink, and every donation and request
\* keeps referring to an existing donor or recipient row.
C24_RowsNeverRemoved ==
  [][/\ DOMAIN donors \subseteq DOMAIN donors'
     /\ DOMAIN recipients \subseteq DOMAIN recipients'
     /\ DOMAIN donations \subseteq DOMAIN donations'
     /\ DOMAIN requests \subseteq DOMAIN requests'
     /\ \A d \in DOMAIN donations' : donations'[d].donor_id \in DOMAIN donors'
     /\ \A r \in DOMAIN requests' : requests'[r].recipient_id \in DOMAIN recipients']_vars

\* A donor with a donation has been deleted: the row is stamped and kept.
C24_Witness ==
  /\ last.op = "/donors/delete"
  /\ \E d \in DOMAIN donations : donors[donations[d].donor_id].deleted_at # NULL

\* C25: every donation row and every request row has units above zero.
C25_UnitsPositive ==
  /\ \A d \in DOMAIN donations : donations[d].units > 0
  /\ \A r \in DOMAIN requests : requests[r].units > 0

\* A request has been amended to other units, with a donation on file.
C25_Witness ==
  /\ last = Answer("/requests/update", Redirect)
  /\ donations # <<>>
  /\ \E r \in DOMAIN requests : requests[r].units = MaxUnits

(***************************************************************************)
(* /requests/delete and /requests/update, case by case.                    *)
(***************************************************************************)
Live(table, id) == id \in DOMAIN table /\ table[id].deleted_at = NULL

\* C26: cancel is only legal from Pending: on a Pending request it marks
\* the request Cancelled and soft-deleted and leaves the inventory alone;
\* on any other request it is rejected and changes nothing.
C26_CancelOnlyFromPending ==
  [][\A id \in DOMAIN requests :
       ( /\ Live(requests, id)
         /\ last'.op = "/requests/delete"
         /\ PostRequestsDelete(id) )
       => IF requests[id].status = Pending
            THEN /\ requests' = [requests EXCEPT ![id].status = Cancelled,
                                                 ![id].deleted_at = Today]
                 /\ inventory' = inventory
            ELSE /\ last'.msg # Redirect
                 /\ db' = db]_vars

\* C27: amend of a Pending request to Fulfilled debits the new units from
\* the recipient's blood type: refused, it leaves request and inventory as
\* they were; accepted, it stores the new units and Fulfilled and the
\* balance drops by exactly the new units.
C27_AmendToFulfilledDebitsNewUnits ==
  [][\A id \in DOMAIN requests, u \in UnitInputs \ {0}, s \in StatusInputs :
       ( /\ Live(requests, id)
         /\ requests[id].status = Pending
         /\ TrimSpace(s) = Fulfilled
         /\ last'.op = "/requests/update"
         /\ PostRequestsUpdate(id, u, s) )
       => LET b == RequestBloodTypeID(id)
          IN IF BalanceOf(inventory, b) >= u
               THEN /\ last'.msg = Redirect
                    /\ requests' = [requests EXCEPT ![id].units = u,
                                                    ![id].status = Fulfilled]
                    /\ BalanceOf(inventory', b) = BalanceOf(inventory, b) - u
                    /\ \A i \in DOMAIN blood_types :
                         i # b => BalanceOf(inventory', i) = BalanceOf(inventory, i)
               ELSE /\ last'.msg \in InsufficientInventory
                    /\ requests' = requests
                    /\ inventory' = inventory]_vars

\* A request stands Fulfilled for MaxUnits after an amendment, all of the
\* donated stock gone.
C27_Witness ==
  /\ last = Answer("/requests/update", Redirect)
  /\ \E r \in DOMAIN requests :
       /\ requests[r].status = Fulfilled
       /\ requests[r].units = MaxUnits
       /\ BalanceOf(inventory, RequestBloodTypeID(r)) = 0
  /\ \E d \in DOMAIN donations : donations[d].units = MaxUnits

\* C28: amend that keeps a Pending request Pending with other units
\* changes the units of that request and nothing else.
C28_PendingAmendLeavesInventory ==
  [][\A id \in DOMAIN requests, u \in UnitInputs \ {0}, s \in StatusInputs :
       ( /\ Live(requests, id)
         /\ requests[id].status = Pending
         /\ TrimSpace(s) = Pending
         /\ u # requests[id].units
         /\ last'.op = "/requests/update"
         /\ PostRequestsUpdate(id, u, s) )
       => /\ inventory' = inventory
          /\ requests' = [requests EXCEPT ![id].units = u]
          /\ last'.msg = Redirect]_vars

\* A Pending request has been amended while its blood type was in stock.
C28_Witness ==
  /\ last = Answer("/requests/update", Redirect)
  /\ \E r \in DOMAIN requests :
       /\ Live(requests, r)
       /\ requests[r].status = Pending
       /\ BalanceOf(inventory, RequestBloodTypeID(r)) >= requests[r].units

\* C29: amend of a Fulfilled request with its stored units and status is
\* accepted and changes nothing: no row, no balance.
C29_FulfilledNoOpAmend ==
  [][\A id \in DOMAIN requests, s \in StatusInputs :
       ( /\ Live(requests, id)
         /\ requests[id].status = Fulfilled
         /\ TrimSpace(s) = Fulfilled
         /\ last'.op = "/requests/update"
         /\ PostRequestsUpdate(id, requests[id].units, s) )
       => /\ last'.msg = Redirect
          /\ db' = db]_vars

\* A Fulfilled request has been amended, stock for a second debit at hand.
C29_Witness ==
  /\ last = Answer("/requests/update", Redirect)
  /\ \E r \in DOMAIN requests :
       /\ Live(requests, r)
       /\ requests[r].status = Fulfilled
       /\ BalanceOf(inventory, RequestBloodTypeID(r)) >= requests[r].units

(***************************************************************************)
(* upsertInventoryByTypeID statement by statement, called by NumProcs      *)
(* concurrent handlers: the UPDATE, and when it affected no row the        *)
(* INSERT, on a table whose blood_type_id is UNIQUE.  credited[ref] sums    *)
(* the units of the calls made.                                            *)
(***************************************************************************)
\* UPDATE inventory SET units = units + ?, deleted_at = NULL, and the test
\* of RowsAffected.
UpsertUpdate(p, ref, units) ==
  LET i == InventoryRowOf(inventory, ref)
  IN /\ procs[p].pc = "idle"
     /\ credited[ref] + units <= MaxCredit
     /\ credited' = [credited EXCEPT ![ref] = @ + units]
     /\ IF i # 0
          THEN /\ inventory' = [inventory EXCEPT ![i].units = @ + units,
                                                 ![i].deleted_at = NULL]
               /\ last' = Answer("credit", "nil")
               /\ UNCHANGED procs
          ELSE /\ procs' = [procs EXCEPT ![p] =
                    [pc |-> "insert", op |-> "credit", id |-> 0,
                     bloodTypeID |-> ref, units |-> units]]
               /\ UNCHANGED <<inventory, last>>
     /\ UNCHANGED <<blood_types, donors, recipients, donations, requests, debited, sideVars>>

\* INSERT INTO inventory (blood_type_id, units, deleted_at): refused when a
\* row of that blood type is there by now.
UpsertInsert(p) ==
  /\ procs[p].pc = "insert"
  /\ IF InventoryRowOf(inventory, procs[p].bloodTypeID) # 0
       THEN /\ last' = Answer("credit", "UNIQUE constraint failed")
            /\ UNCHANGED inventory
       ELSE /\ inventory' = Append(inventory, [blood_type_id |-> procs[p].bloodTypeID,
                                               units |-> procs[p].units,
                                               deleted_at |-> NULL])
            /\ last' = Answer("credit", "nil")
  /\ procs' = [procs EXCEPT ![p] = Idle]
  /\ UNCHANGED <<blood_types, donors, recipients, donations, requests,
                 credited, debited, sideVars>>

CreditUpdate == \E p \in 1..NumProcs, ref \in 1..MaxRefs, u \in 1..MaxUnits : UpsertUpdate(p, ref, u)
CreditInsert == \E p \in 1..NumProcs : UpsertInsert(p)

CreditNext ==
  \/ CreditUpdate
  \/ CreditInsert

CreditSpec == LedgerInit /\ [][CreditNext]_vars

\* C30: a credit with units > 0 for a valid ref always succeeds, also when
\* two credits for a ref without a balance row run concurrently: once the
\* calls have returned the balance is the sum of all units credited.
C30_NoCreditLost ==
  /\ last # Answer("credit", "UNIQUE constraint failed")
  /\ (\A p \in 1..NumProcs : procs[p].pc = "idle")
       => \A ref \in 1..MaxRefs : BalanceOf(inventory, ref) = credited[ref]

(***************************************************************************)
(* The program from its start: initDB with the migration on the database   *)
(* file found, then, once initDB has returned, the handlers that write     *)
(* blood-type refs; the program may be stopped and started again.          *)
(***************************************************************************)
Started == mig.pc = "done"

ServeAddDonor == Started /\ AddDonor
ServeAddRecipient == Started /\ AddRecipient
ServeUpdateDonor == Started /\ UpdateDonor
ServeUpdateRecipient == Started /\ UpdateRecipient
ServeRecordDonation == Started /\ RecordDonation

ServiceNext ==
  \/ StartUp
  \/ CollectLabels
  \/ CreateNew
  \/ CopyRows
  \/ Swap
  \/ Interrupt
  \/ StartAgain
  \/ ServeAddDonor
  \/ ServeAddRecipient
  \/ ServeUpdateDonor
  \/ ServeUpdateRecipient
  \/ ServeRecordDonation

ServiceSpec == MigInit /\ [][ServiceNext]_vars

Labels == { blood_types[i] : i \in DOMAIN blood_types }

\* C21: a ref once assigned to a label keeps that label, resolving the
\* label keeps returning that ref, and no ref moves to another label,
\* through registrations, updates and the migration.
C21_RefsImmutable ==
  [][\A i \in DOMAIN blood_types :
       /\ i \in DOMAIN blood_types'
       /\ blood_types'[i] = blood_types[i]
       /\ BloodTypeIdOf(blood_types', blood_types[i]) = BloodTypeIdOf(blood_types, blood_types[i])]_vars

\* After the migration a handler has added a label to the registry.
C21_Witness ==
  /\ Started
  /\ last \in {Answer("/donors/update", Redirect), Answer("/recipients/update", Redirect)}
  /\ Unknown \in Labels
  /\ Len(blood_types) >= 3

\* C22: every label of the registry is non-empty, trimmed and uppercased,
\* and no two entries have the same label.
C22_LabelsNormalizedUnique ==
  /\ \A i \in DOMAIN blood_types :
       /\ blood_types[i] # Empty
       /\ TrimSpace(blood_types[i]) = blood_types[i]
       /\ ToUpper(blood_types[i]) = blood_types[i]
  /\ \A i \in DOMAIN blood_types, j \in DOMAIN blood_types :
       blood_types[i] = blood_types[j] => i = j

\* The migration has collected the label of a legacy donor stored as o+.
C22_Witness ==
  /\ mig.pc = "create"
  /\ \E d \in DOMAIN mig.legacy.donors : mig.legacy.donors[d].blood_type = <<"o+">>
  /\ <<"O+">> \in Labels

\* C23: the blood-type ref of every donor, recipient and inventory row is
\* an entry of the registry.
C23_RefsResolve ==
  /\ \A d \in DOMAIN donors : donors[d].blood_type_id \in DOMAIN blood_types
  /\ \A r \in DOMAIN recipients : recipients[r].blood_type_id \in DOMAIN blood_types
  /\ \A i \in DOMAIN inventory : inventory[i].blood_type_id \in DOMAIN blood_types

\* Migrated donors and inventory, and a donor given another blood type.
C23_Witness ==
  /\ Started
  /\ last = Answer("/donors/update", Redirect)
  /\ Unknown \in Labels
  /\ donors # <<>>
  /\ inventory # <<>>

(***************************************************************************)
(* Retiring a donation more than once, one request after the other.        *)
(***************************************************************************)
\* C36: /donations/delete on a donation that is already soft-deleted is
\* answered "Donation not found.", debits nothing and changes no table.
C36_RetiredAtMostOnce ==
  [][\A id \in DOMAIN donations :
       ( /\ donations[id].deleted_at # NULL
         /\ last'.op = "/donations/delete"
         /\ PostDonationsDelete(id) )
       => /\ last'.msg = "Donation not found."
          /\ db' = db]_vars

\* A retired donation was asked for again while the balance of its blood
\* type could still have paid a second debit.
C36_Witness ==
  /\ last = Answer("/donations/delete", "Donation not found.")
  /\ \E d \in DOMAIN donations :
       /\ donations[d].deleted_at # NULL
       /\ BalanceOf(inventory, creditedType[d]) >= donations[d].units

\* C34: when a retirement brings an inventory balance from a positive
\* amount to 0, the row is marked deleted and leaves the inventory listing.
C34_EmptiedEntryRemoved ==
  [][\A i \in DOMAIN inventory :
       ( /\ last'.op = "/donations/delete"
         /\ inventory[i].units > 0
         /\ inventory'[i].units = 0 )
       => inventory'[i].deleted_at # NULL]_vars


(***************************************************************************)
(* Two requests for the same donation or the same request, interleaved.    *)
(***************************************************************************)
\* C35: a process runs the debiting UPDATE for a donation or a request only
\* when that donation or request has not been debited before: no other
\* process stands between its own debit and its mark for the same row, and
\* the row is not yet marked (soft-deleted, or Fulfilled).
C35_DebitedAtMostOnce ==
  [][\A p \in 1..NumProcs :
       ( /\ procs[p].pc = "update"
         /\ procs'[p].pc = "mark"
         /\ ConsumeUpdateStep(p) )
       => /\ \A q \in (1..NumProcs) \ {p} :
               ~( /\ procs[q].pc = "mark"
                  /\ procs[q].op = procs[p].op
                  /\ procs[q].id = procs[p].id )
          /\ procs[p].op = "/fulfill"
               => requests[procs[p].id].status # Fulfilled
          /\ procs[p].op = "/donations/delete"
               => donations[procs[p].id].deleted_at = NULL]_vars

(***************************************************************************)
(* The handlers of donors, recipients and new requests next to recorded    *)
(* donations, fulfilled requests and retired donations.                    *)
(***************************************************************************)
PeopleNext ==
  \/ AddDonor
  \/ AddRecipient
  \/ UpdateDonor
  \/ UpdateRecipient
  \/ DeleteDonor
  \/ DeleteRecipient
  \/ RecordDonation
  \/ RetireDonation
  \/ CreateRequest
  \/ Fulfill

PeopleSpec == Init /\ [][PeopleNext]_vars

\* The routes that register, update or soft-delete a donor or a recipient,
\* and the route that creates a request.
PeopleRoutes ==
  { "/donors", "/donors/update", "/donors/delete",
    "/recipients", "/recipients/update", "/recipients/delete", "/requests" }

\* C37: a step of /donors, /donors/update, /donors/delete, /recipients,
\* /recipients/update, /recipients/delete or /requests leaves every
\* inventory row, every donation row and every existing request row as it
\* was.
C37_PeopleRoutesFrame ==
  [][last'.op \in PeopleRoutes
       => /\ inventory' = inventory
          /\ donations' = donations
          /\ \A r \in DOMAIN requests :
               r \in DOMAIN requests' /\ requests'[r] = requests[r]]_vars

\* A recipient with a live request was soft-deleted while a donation and a
\* positive balance existed.
C37_Witness ==
  /\ last = Answer("/recipients/delete", Redirect)
  /\ \E r \in DOMAIN requests :
       /\ requests[r].deleted_at = NULL
       /\ recipients[requests[r].recipient_id].deleted_at # NULL
  /\ \E d \in DOMAIN donations : donations[d].deleted_at = NULL
  /\ \E i \in DOMAIN inventory : inventory[i].units > 0

(***************************************************************************)
(* What the migration carries over from the legacy tables.                 *)
(***************************************************************************)
\* The normalized non-blank labels of the rows of one legacy table.
NormalizedLabels(rows) ==
  { normalizeBloodType(rows[i].blood_type) : i \in DOMAIN rows } \ { Empty }

\* The labels stored anywhere in a legacy database: every legacy table has
\* a blood_type column.
LegacyLabelsOf(l) ==
  NormalizedLabels(l.donors) \cup NormalizedLabels(l.recipients)
    \cup NormalizedLabels(l.donations) \cup NormalizedLabels(l.requests)
    \cup NormalizedLabels(l.inventory)

\* The ref a migrated row is to carry for a legacy label.
RefOfLabel(bts, bloodType) ==
  IF normalizeBloodType(bloodType) # Empty
       /\ BloodTypeIdOf(bts, normalizeBloodType(bloodType)) # 0
    THEN BloodTypeIdOf(bts, normalizeBloodType(bloodType))
    ELSE BloodTypeIdOf(bts, Unknown)

\* C32: on every legacy database the copy statements succeed and stage,
\* for every row of every legacy table, a row with the same id and the same
\* other fields whose ref is the registry entry of the normalized label (or
\* UNKNOWN); the swap then installs exactly the staged rows.
C32_EveryRowCopied ==
  [][/\ CopyRows =>
          /\ mig'.pc = "swap"
          /\ \A t \in {"donors", "recipients", "donations", "requests", "inventory"} :
               DOMAIN mig'.staged[t] = DOMAIN mig.legacy[t]
          /\ \A t \in {"donors", "recipients"} : \A i \in DOMAIN mig.legacy[t] :
               /\ i \in DOMAIN mig'.staged[t]
               /\ mig'.staged[t][i].name = mig.legacy[t][i].name
               /\ mig'.staged[t][i].deleted_at = mig.legacy[t][i].deleted_at
               /\ mig'.staged[t][i].blood_type_id
                    = RefOfLabel(blood_types, mig.legacy[t][i].blood_type)
          /\ \A i \in DOMAIN mig.legacy.inventory :
               /\ i \in DOMAIN mig'.staged.inventory
               /\ mig'.staged.inventory[i].units = mig.legacy.inventory[i].units
               /\ mig'.staged.inventory[i].blood_type_id
                    = RefOfLabel(blood_types, mig.legacy.inventory[i].blood_type)
          /\ \A i \in DOMAIN mig.legacy.donations :
               /\ i \in DOMAIN mig'.staged.donations
               /\ mig'.staged.donations[i].units = mig.legacy.donations[i].units
               /\ mig'.staged.donations[i].donor_id = mig.legacy.donations[i].donor_id
          /\ \A i \in DOMAIN mig.legacy.requests :
               /\ i \in DOMAIN mig'.staged.requests
               /\ mig'.staged.requests[i].units = mig.legacy.requests[i].units
               /\ mig'.staged.requests[i].status = mig.legacy.requests[i].status
     /\ Swap =>
          /\ donors' = mig.staged.donors
          /\ recipients' = mig.staged.recipients
          /\ donations' = mig.staged.donations
          /\ requests' = mig.staged.requests
          /\ inventory' = mig.staged.inventory]_vars

\* C33: when the migration completes, the registry holds every normalized
\* non-blank label of the legacy donors, recipients, donations, requests
\* and inventory, and the label UNKNOWN.
C33_RegistryHasEveryLabel ==
  [][Swap => (LegacyLabelsOf(mig.legacy) \cup {Unknown})
                \subseteq { blood_types'[i] : i \in DOMAIN blood_types' }]_vars

(***************************************************************************)
(* The swap of migrateTo3NF statement by statement: five DROP TABLE, five  *)
(* ALTER TABLE .. RENAME, each its own db.Exec, with the process stopped   *)
(* between any two and started again.  mig.swapped counts the statements   *)
(* of the swap that have run, mig.layout tells for each table name whether *)
(* the file holds the old table ("legacy", rows in mig.legacy), no table   *)
(* ("none") or a table of the current schema ("3nf", rows in the variable  *)
(* of that name); mig.staged holds the rows of the *_new tables and        *)
(* mig.orig the rows the file started with.                                *)
(***************************************************************************)
\* The tables in the order of the DROP TABLE and of the RENAME statements.
TableNames == <<"donors", "recipients", "donations", "requests", "inventory">>
NumTables == Len(TableNames)

SwapInit ==
  /\ last = NoAnswer
  /\ credited = NoLedger
  /\ debited = NoLedger
  /\ procs = IdleProcs
  /\ creditedType = <<>>
  /\ returned = {}
  /\ calls = NoCalls
  /\ blood_types = <<>>
  /\ donors = <<>>
  /\ recipients = <<>>
  /\ donations = <<>>
  /\ inventory = <<>>
  /\ requests = <<>>
  /\ mig \in { [pc |-> "start", schema |-> "legacy", starts |-> 1,
                 interrupted |-> FALSE, inWindow |-> FALSE, hasNew |-> FALSE,
                 legacy |-> l, staged |-> EmptyTables, first |-> <<>>,
                 swapped |-> 0, orig |-> l,
                 layout |-> [t \in DOMAIN EmptyTables |-> "legacy"]] :
               l \in LegacyDatabases }

\* initDB on a file in any layout.  db.Exec(schema) creates, empty and in
\* the current schema, every table the file does not hold (CREATE TABLE IF
\* NOT EXISTS).  migrateTo3NF goes on only when donors has the column
\* blood_type; otherwise ensureColumn finds deleted_at in every table and
\* CREATE UNIQUE INDEX .. ON inventory(blood_type_id) fails on an inventory
\* table of the earlier schema, which has no such column.
SwapStartUp ==
  LET created == [t \in DOMAIN mig.layout |->
                    IF mig.layout[t] = "none" THEN "3nf" ELSE mig.layout[t]]
      m == [mig EXCEPT !.layout = created,
                       !.schema = IF created.donors = "legacy" THEN "legacy" ELSE "3nf"]
  IN /\ mig.pc = "start"
     /\ mig' = IF created.donors = "legacy"
                 THEN [m EXCEPT !.pc = "labels"]
                 ELSE IF created.inventory = "legacy"
                   THEN [m EXCEPT !.pc = "failed"]
                   ELSE Completed(m, db)
     /\ NoDbChange
     /\ MigUnchanged

\* One DROP TABLE of the swap.
DropTable ==
  /\ mig.pc = "swap"
  /\ mig.swapped < NumTables
  /\ LET t == TableNames[mig.swapped + 1]
     IN mig' = [mig EXCEPT !.swapped = @ + 1,
                           !.layout[t] = "none",
                           !.legacy[t] = <<>>]
  /\ NoDbChange
  /\ MigUnchanged

\* One ALTER TABLE t_new RENAME TO t of the swap.
RenameTable ==
  /\ mig.pc = "swap"
  /\ mig.swapped >= NumTables
  /\ mig.swapped < 2 * NumTables
  /\ LET t == TableNames[mig.swapped - NumTables + 1]
     IN /\ donors' = IF t = "donors" THEN mig.staged.donors ELSE donors
        /\ recipients' = IF t = "recipients" THEN mig.staged.recipients ELSE recipients
        /\ donations' = IF t = "donations" THEN mig.staged.donations ELSE donations
        /\ requests' = IF t = "requests" THEN mig.staged.requests ELSE requests
        /\ inventory' = IF t = "inventory" THEN mig.staged.inventory ELSE inventory
        /\ mig' = [mig EXCEPT !.swapped = @ + 1,
                              !.layout[t] = "3nf",
                              !.staged[t] = <<>>,
                              !.hasNew = (mig.swapped + 1 < 2 * NumTables)]
  /\ UNCHANGED blood_types
  /\ MigUnchanged

\* PRAGMA foreign_keys = ON and the return of migrateTo3NF; ensureColumn
\* and the index find all in place.
FinishSwap ==
  /\ mig.pc = "swap"
  /\ mig.swapped = 2 * NumTables
  /\ mig' = Completed([mig EXCEPT !.schema = "3nf"], db)
  /\ NoDbChange
  /\ MigUnchanged

SwapNext ==
  \/ SwapStartUp
  \/ CollectLabels
  \/ CreateNew
  \/ CopyRows
  \/ DropTable
  \/ RenameTable
  \/ FinishSwap
  \/ Interrupt
  \/ StartAgain

SwapSpec == SwapInit /\ [][SwapNext]_vars

\* The rows the file holds in the table named t.
TableNow(t) ==
  IF mig.layout[t] = "legacy"
    THEN mig.legacy[t]
    ELSE CASE t = "donors" -> donors
           [] t = "recipients" -> recipients
           [] t = "donations" -> donations
           [] t = "requests" -> requests
           [] t = "inventory" -> inventory

\* Every row of old is in new under the same id, with the same value in
\* every column the two have in common (all but the blood type).
SameRows(old, new) ==
  \A i \in DOMAIN old :
    /\ i \in DOMAIN new
    /\ \A f \in (DOMAIN old[i]) \cap (DOMAIN new[i]) : old[i][f] = new[i][f]

\* C31: once a start-up has ended after a run was stopped between two
\* statements, every table name holds every row the legacy table of that
\* name started with, in legacy or in migrated form.
C31_NoRowLostOrStranded ==
  (mig.interrupted /\ mig.pc \in {"done", "failed"})
    => \A t \in DOMAIN mig.orig : SameRows(mig.orig[t], TableNow(t))

====
